---- MODULE Spec2Model ----
(***************************************************************************)
(* State-machine model of the useVideoProcessor hook (the render/record    *)
(* pipeline): the React state it exposes, the refs shared by every         *)
(* session, and, per processVideo call, the objects captured by that       *)
(* call's closures (source video element, MediaRecorder, AudioContext,     *)
(* promise).  The browser is the environment: it delivers media-element    *)
(* events, recorder events, animation frames and play() rejections in any  *)
(* order the platform allows.                                              *)
(*                                                                         *)
(* Around the hook, the App component: the Settings value and its          *)
(* producers (sliders and toggles, reset, the AI suggestion, the value     *)
(* restored from localStorage), the debounced copy the preview uses, and   *)
(* the handlers that call the hook.                                        *)
(***************************************************************************)
EXTENDS Integers, Sequences, FiniteSets, TLC

\* ---------------------------------------------------------------- bounds
MaxSessions == 2      \* processVideo calls in one behaviour of Spec
ExtraSessions == 1    \* further calls in one behaviour of SpecLong
Duration == 200       \* duration of a source video, in playback ticks
MaxOdd == 2           \* fields in which a sample object differs from the plain one
AppSessions == 2      \* processVideo calls in one behaviour of SpecApp
FrameSessions == 1    \* processVideo calls in one behaviour of SpecLines, SpecNoise, SpecRestore
MaxName == 4          \* characters of a file name
PhaseFrames == 3      \* frames with the rotating lines per session in SpecPhases

Sessions == 1..(MaxSessions + ExtraSessions)

\* Playback positions the source passes through; Duration - 1 is a position
\* within the last half percent of the video.
Positions == {0, Duration \div 2, Duration - 1, Duration}

\* ------------------------------------------------------------- constants
MimeType == "video/webm;codecs=vp8,opus"

NoError == <<>>
CanvasContextError == <<"Could not get canvas context.">>
AudioContextError == <<"AudioContext not supported.">>
MimeTypeError ==
    <<"MIME type ", MimeType, " not supported for MediaRecorder. Your browser may not support WEBM (VP8/Opus) recording.">>
RecorderCtorError == <<"Failed to create MediaRecorder: ", "e.message", ".">>
RecorderError == <<"MediaRecorder unspecified error">>
PlaybackError == <<"Error playing source video: ", "Unknown video playback error">>
LoadError == <<"Error loading video: ", "Failed to load video file.">>
PlayRejectError == <<"Could not start video playback: ", "err.message">>

FPS == 30
ROTATION_DURATION_SECONDS == 30

\* Angles are counted in units of which a full turn (2 * Math.PI) holds
\* TwoPi, so that Math.PI / 2 and the increment per frame are whole numbers.
TwoPi == 4 * (ROTATION_DURATION_SECONDS * FPS)

HalfPi == TwoPi \div 4

rotationIncrementPerFrame == TwoPi \div (ROTATION_DURATION_SECONDS * FPS)

\* ----------------------------------------------------------- JSON values
\* The JavaScript values JSON can carry.  Numbers are fixed-point, counted in
\* hundredths: Hundredths(1) is 1.0 and Hundredths(1) \div 2 is 0.5.
Hundredths(x) == 100 * x

Number(x) == [type |-> "number", num |-> x]

Bool(b) == [type |-> "boolean", bool |-> b]

Str(s) == [type |-> "string", str |-> s]

Null == [type |-> "null"]

Array == [type |-> "array"]

Object(fields) == [type |-> "object", fields |-> fields]

\* typeof
TypeOf(v) == IF v.type \in {"null", "array"} THEN "object" ELSE v.type

\* The truth value a condition or the ! operator takes a value for
Truthy(v) ==
    CASE v.type = "boolean" -> v.bool
      [] v.type = "number" -> v.num # 0
      [] v.type = "string" -> v.str # ""
      [] v.type = "null" -> FALSE
      [] OTHER -> TRUE

\* A text, as localStorage holds it or the AI call returns it: nothing at all,
\* characters that are no JSON, or the JSON text of a value; possibly wrapped
\* in a Markdown code fence ("fenced") or in one tagged json ("fenced json").
Text(fence, body) == [fence |-> fence, body |-> body]

Empty == [type |-> "empty"]

Garbage == [type |-> "garbage"]

\* jsonStr.match(fenceRegex): the fence is taken off a non-empty body
StripFence(text) ==
    IF text.fence # "none" /\ text.body # Empty
    THEN Text("none", text.body)
    ELSE text

\* JSON.parse returns a value for the JSON text of a value and throws for
\* anything else.
Parses(text) == text.fence = "none" /\ text.body \notin {Empty, Garbage}

JSONparse(text) == text.body

JSONstringify(value) == Text("none", value)

\* ------------------------------------------------------------- Settings
DEFAULT_VIDEO_SETTINGS ==
    [brightness |-> Number(Hundredths(100)),
     contrast |-> Number(Hundredths(100)),
     saturation |-> Number(Hundredths(100)),
     playbackSpeed |-> Number(Hundredths(1)),
     volume |-> Number(Hundredths(100)),
     flipHorizontal |-> Bool(FALSE),
     enableRotatingLines |-> Bool(FALSE),
     enablePixelNoise |-> Bool(FALSE),
     audioPreservesPitch |-> Bool(TRUE)]

\* Object.keys(DEFAULT_VIDEO_SETTINGS)
SettingsKeys == DOMAIN DEFAULT_VIDEO_SETTINGS

\* { ...base, ...value }, as far as the Settings fields go: a primitive or
\* null contributes nothing, and the index keys of a string or an array, like
\* any other key, are no field of Settings.
Spread(base, value) ==
    [key \in DOMAIN base |->
        IF value.type = "object" /\ key \in DOMAIN value.fields
        THEN value.fields[key]
        ELSE base[key]]

\* localStorage.getItem returned null
NoEntry == [type |-> "none"]

\* InitialSettings without its try and catch
InitialSettingsUncaught(savedSettings) ==
    IF savedSettings = NoEntry \/ savedSettings = Text("none", Empty)
    THEN [value |-> DEFAULT_VIDEO_SETTINGS, thrown |-> FALSE]
    ELSE IF ~Parses(savedSettings)
    THEN [value |-> DEFAULT_VIDEO_SETTINGS, thrown |-> TRUE]
    ELSE [value |-> Spread(DEFAULT_VIDEO_SETTINGS, JSONparse(savedSettings)),
          thrown |-> FALSE]

\* The initializer of currentSettings: the value it returns, and whether an
\* exception left it instead.
InitialSettings(savedSettings) ==
    IF savedSettings = NoEntry \/ savedSettings = Text("none", Empty)
    THEN [value |-> DEFAULT_VIDEO_SETTINGS, thrown |-> FALSE]
    ELSE IF ~Parses(savedSettings)
    THEN [value |-> DEFAULT_VIDEO_SETTINGS, thrown |-> FALSE]
    ELSE [value |-> Spread(DEFAULT_VIDEO_SETTINGS, JSONparse(savedSettings)),
          thrown |-> FALSE]

\* The min, max and step of the five sliders
sliders ==
    [brightness |-> [min |-> 0, max |-> Hundredths(200), step |-> Hundredths(1)],
     contrast |-> [min |-> 0, max |-> Hundredths(200), step |-> Hundredths(1)],
     saturation |-> [min |-> 0, max |-> Hundredths(200), step |-> Hundredths(1)],
     playbackSpeed |-> [min |-> Hundredths(1) \div 2, max |-> Hundredths(2),
                        step |-> Hundredths(1) \div 10],
     volume |-> [min |-> 0, max |-> Hundredths(100), step |-> Hundredths(1)]]

\* What a range input can report: a value on its step grid between its min
\* and its max.
SliderValues(key) ==
    {sliders[key].min, sliders[key].min + sliders[key].step, sliders[key].max}

\* ------------------------------------------------- AI suggestion ingestion
ranges ==
    [brightness |-> [min |-> 0, max |-> Hundredths(200)],
     contrast |-> [min |-> 0, max |-> Hundredths(200)],
     saturation |-> [min |-> 0, max |-> Hundredths(200)],
     playbackSpeed |-> [min |-> Hundredths(1) \div 2, max |-> Hundredths(2)],
     volume |-> [min |-> 0, max |-> Hundredths(100)]]

Min(a, b) == IF a < b THEN a ELSE b

Max(a, b) == IF a > b THEN a ELSE b

\* suggested.hasOwnProperty(key), for a value that has properties
HasOwnProperty(value, key) ==
    value.type = "object" /\ key \in DOMAIN value.fields

\* The field is there and typeof finds it of the type of its default.
FieldValid(suggested, key) ==
    /\ HasOwnProperty(suggested, key)
    /\ TypeOf(suggested.fields[key]) = TypeOf(DEFAULT_VIDEO_SETTINGS[key])

\* SuggestedField without the clamp to the upper end of the range
SuggestedFieldHalfClamped(suggested, key) ==
    IF FieldValid(suggested, key)
    THEN LET suggestedValue == suggested.fields[key] IN
         IF TypeOf(suggestedValue) = "number" /\ key \in DOMAIN ranges
         THEN Number(Max(ranges[key].min, suggestedValue.num))
         ELSE suggestedValue
    ELSE DEFAULT_VIDEO_SETTINGS[key]

\* One round of the forEach: what newSettings[key] is after it.
SuggestedField(suggested, key) ==
    IF FieldValid(suggested, key)
    THEN LET suggestedValue == suggested.fields[key] IN
         IF TypeOf(suggestedValue) = "number" /\ key \in DOMAIN ranges
         THEN Number(Max(ranges[key].min,
                         Min(ranges[key].max, suggestedValue.num)))
         ELSE suggestedValue
    ELSE DEFAULT_VIDEO_SETTINGS[key]

NewSettings(suggested) ==
    [key \in SettingsKeys |-> SuggestedField(suggested, key)]

\* allFieldsValid with a clamped field counted as invalid too
AllFieldsValidUnclamped(suggested) ==
    \A key \in SettingsKeys :
        /\ FieldValid(suggested, key)
        /\ SuggestedField(suggested, key) = suggested.fields[key]

AllFieldsValid(suggested) ==
    \A key \in SettingsKeys : FieldValid(suggested, key)

PartialWarning ==
    <<"AI suggestion was partially applied. Some fields were missing or invalid and set to defaults.">>
SuggestFailedError ==
    <<"Failed to get AI suggestions: ", "e.message",
      ". Please try again or adjust settings manually.">>

\* The AI call was rejected: no text came back.
CallFailed == [type |-> "rejected"]

\* Lines 176-191: the response did not become a value to ingest. The call
\* was rejected, JSON.parse threw, or the value is null and hasOwnProperty
\* cannot be read from it.
SuggestionThrows(response) ==
    \/ response = CallFailed
    \/ ~Parses(StripFence(response))
    \/ JSONparse(StripFence(response)) = Null

\* ------------------------------------------------------------ video files
\* The three signals onloadedmetadata probes for the presence of audio
AudioSignals == {"audioTracks", "mozHasAudio", "webkitAudioDecodedByteCount"}

\* What the model needs of a File: the dimensions of its video, which of the
\* audio signals the browser gives for it, and whether the browser throws
\* while the audio graph is built for it.
File(width, height, hasAudio) ==
    [type |-> "file", width |-> width, height |-> height,
     signals |-> IF hasAudio THEN {"audioTracks"} ELSE {},
     graphThrows |-> FALSE]

NoFile == [type |-> "none"]

\* The file of the calls that come from outside the App
AnyFile == File(1000, 1000, TRUE)

\* ---------------------------------------------------------- file names
\* A string is the sequence of its characters.
RECURSIVE Split(_, _)

\* str.split(separator), for a separator of one character
Split(str, separator) ==
    IF \A i \in DOMAIN str : str[i] # separator
    THEN <<str>>
    ELSE LET i == CHOOSE i \in DOMAIN str :
                     /\ str[i] = separator
                     /\ \A j \in 1..(i - 1) : str[j] # separator
         IN <<SubSeq(str, 1, i - 1)>>
                \o Split(SubSeq(str, i + 1, Len(str)), separator)

\* A File that has a name
NamedFile(name) ==
    [type |-> "file", width |-> AnyFile.width, height |-> AnyFile.height,
     signals |-> AnyFile.signals, graphThrows |-> AnyFile.graphThrows,
     name |-> name]

\* The download attribute of the result link:
\* `modified_${videoFile?.name.split('.')[0] || 'video'}.webm`, where the
\* empty string and undefined are falsy. "modified_", "video" and ".webm"
\* stand as one character each.
Download(f) ==
    LET first == IF f = NoFile THEN <<>> ELSE Split(f.name, ".")[1] IN
    <<"modified_">> \o (IF first # <<>> THEN first ELSE <<"video">>)
        \o <<".webm">>

\* ----------------------------------------------------------------- state
VARIABLES
    isProcessing,          \* useState(false)
    processedVideoUrl,     \* internalProcessedVideoUrl: 0 = null, s = URL made by session s
    processingError,       \* NoError = null
    progress,
    sourceVideoRef,        \* refs: 0 = null / 0, s = the object created by session s
    canvasRef,
    mediaRecorderRef,
    recordedChunksRef,     \* sequence of chunks [rec, size]
    audioContextRef,
    animationFrameIdRef,
    video,                 \* per session: the HTMLVideoElement of the call
    recorder,              \* per session: the MediaRecorder of the call
    audio,                 \* per session: the AudioContext state
    promise,               \* per session: the promise returned by processVideo
    scheduled,             \* sessions whose drawFrame has a pending animation frame
    nSessions,             \* processVideo calls so far
    mounted,               \* the component using the hook is mounted
    superseded,            \* history: sessions still pending when a later call began
    fault,                 \* history: per session, what the browser refused or broke
    lastOp,                \* history: the step taken last
    rotationAngle1Ref,     \* refs of the two rotating lines
    rotationAngle2Ref,
    settings,              \* per session: the settings parameter of the call
    file,                  \* per session: the videoFile parameter of the call
    canvas,                \* per session: the canvas of the call and what is painted on it
    applied,               \* per session: what onloadedmetadata set on the video and the gain node
    objectUrls,            \* result URLs created and not revoked; s = the URL made by session s
    linesFrames,           \* history: frames that drew the rotating lines since the angles were reset
    eventError,            \* history: the error property of the latest recorder error event
    delivered,             \* history: per session, the non-empty chunks its recorder delivered ahead of its stop event
    requested,             \* history: per session, currentSettings when the call was made
    videoFile,             \* App: useState(null)
    currentSettings,       \* App: useState(initializer)
    debouncedSettingsForPreview,
    debounceTimer,         \* App: the setTimeout of the debounce effect is pending
    localStorage,          \* the entry 'videoStealthModifierSettings'
    savedSettings,         \* what the entry held when the App was constructed
    isSuggestingSettings,  \* App: useState(false)
    geminiError,           \* App: NoError = null
    response,              \* what the AI call of this run answers
    uncaught               \* an exception left a handler or an initializer

hookVars == <<isProcessing, processedVideoUrl, processingError, progress,
              sourceVideoRef, canvasRef, mediaRecorderRef, recordedChunksRef,
              audioContextRef, animationFrameIdRef, video, recorder, audio,
              promise, scheduled, mounted, rotationAngle1Ref,
              rotationAngle2Ref, settings, file, canvas, applied, objectUrls,
              linesFrames, delivered, eventError>>

appVars == <<videoFile, currentSettings, debouncedSettingsForPreview,
             debounceTimer, localStorage, savedSettings, isSuggestingSettings,
             geminiError, response, uncaught>>

vars == <<hookVars, appVars, nSessions, superseded, fault, requested, lastOp>>

NewVideo ==
    [src |-> "unset", meta |-> FALSE, paused |-> TRUE, ended |-> FALSE,
     pos |-> 0, events |-> {}, playPending |-> FALSE, playCalled |-> FALSE]

NewRecorder == [state |-> "none", queue |-> <<>>]

NewPromise == [state |-> "none", url |-> 0, error |-> NoError, kind |-> "none"]

\* A canvas element as document.createElement makes it, nothing painted on it
NewCanvas == [width |-> 300, height |-> 150, painted |-> [drawn |-> FALSE]]

Unset == [type |-> "unset"]

Undefined == [type |-> "undefined"]

\* An Error object; its message is a sequence of text pieces, as the error
\* messages above are.
ErrorObject(name, message) ==
    [type |-> "Error", name |-> name, message |-> message]

\* new Error(message)
NewError(message) == ErrorObject("Error", message)

\* The whole state as one record, so that handlers compose as functions.
Cur ==
    [isProcessing |-> isProcessing, processedVideoUrl |-> processedVideoUrl,
     processingError |-> processingError, progress |-> progress,
     sourceVideoRef |-> sourceVideoRef, canvasRef |-> canvasRef,
     mediaRecorderRef |-> mediaRecorderRef,
     recordedChunksRef |-> recordedChunksRef,
     audioContextRef |-> audioContextRef,
     animationFrameIdRef |-> animationFrameIdRef,
     video |-> video, recorder |-> recorder, audio |-> audio,
     promise |-> promise, scheduled |-> scheduled, mounted |-> mounted,
     rotationAngle1Ref |-> rotationAngle1Ref,
     rotationAngle2Ref |-> rotationAngle2Ref,
     settings |-> settings, file |-> file, canvas |-> canvas,
     applied |-> applied, objectUrls |-> objectUrls,
     linesFrames |-> linesFrames, delivered |-> delivered,
     eventError |-> eventError]

Commit(h) ==
    /\ isProcessing' = h.isProcessing
    /\ processedVideoUrl' = h.processedVideoUrl
    /\ processingError' = h.processingError
    /\ progress' = h.progress
    /\ sourceVideoRef' = h.sourceVideoRef
    /\ canvasRef' = h.canvasRef
    /\ mediaRecorderRef' = h.mediaRecorderRef
    /\ recordedChunksRef' = h.recordedChunksRef
    /\ audioContextRef' = h.audioContextRef
    /\ animationFrameIdRef' = h.animationFrameIdRef
    /\ video' = h.video
    /\ recorder' = h.recorder
    /\ audio' = h.audio
    /\ promise' = h.promise
    /\ scheduled' = h.scheduled
    /\ mounted' = h.mounted
    /\ rotationAngle1Ref' = h.rotationAngle1Ref
    /\ rotationAngle2Ref' = h.rotationAngle2Ref
    /\ settings' = h.settings
    /\ file' = h.file
    /\ canvas' = h.canvas
    /\ applied' = h.applied
    /\ objectUrls' = h.objectUrls
    /\ linesFrames' = h.linesFrames
    /\ delivered' = h.delivered
    /\ eventError' = h.eventError

\* The hook after its first render.
InitHook ==
    /\ isProcessing = FALSE
    /\ processedVideoUrl = 0
    /\ processingError = NoError
    /\ progress = 0
    /\ sourceVideoRef = 0
    /\ canvasRef = 0
    /\ mediaRecorderRef = 0
    /\ recordedChunksRef = <<>>
    /\ audioContextRef = 0
    /\ animationFrameIdRef = 0
    /\ video = [s \in Sessions |-> NewVideo]
    /\ recorder = [s \in Sessions |-> NewRecorder]
    /\ audio = [s \in Sessions |-> "none"]
    /\ promise = [s \in Sessions |-> NewPromise]
    /\ scheduled = {}
    /\ nSessions = 0
    /\ superseded = {}
    /\ fault = [s \in Sessions |-> "none"]
    /\ lastOp = [op |-> "init", s |-> 0]
    /\ rotationAngle1Ref = 0
    /\ rotationAngle2Ref = HalfPi
    /\ settings = [s \in Sessions |-> Unset]
    /\ file = [s \in Sessions |-> NoFile]
    /\ canvas = [s \in Sessions |-> NewCanvas]
    /\ applied = [s \in Sessions |-> Unset]
    /\ objectUrls = {}
    /\ linesFrames = 0
    /\ delivered = [s \in Sessions |-> <<>>]
    /\ eventError = Undefined
    /\ requested = [s \in Sessions |-> Unset]

\* SliderControl renders value.toFixed(...): the first render throws when a
\* slider field holds no number, and React takes the App down.
RenderThrows(value) ==
    \E key \in DOMAIN sliders : value[key].type # "number"

\* The App after its first render and its effects, given what localStorage
\* held and what the AI service is going to answer: currentSettings comes
\* from the initializer, the save effect has written it back, the debounce
\* effect has armed its timer.
InitApp(entry, answer) ==
    LET initial == InitialSettings(entry) IN
    /\ savedSettings = entry
    /\ currentSettings = initial.value
    /\ uncaught = (initial.thrown \/ RenderThrows(initial.value))
    /\ mounted = ~(initial.thrown \/ RenderThrows(initial.value))
    /\ debouncedSettingsForPreview = initial.value
    /\ debounceTimer = TRUE
    /\ localStorage = IF initial.thrown \/ RenderThrows(initial.value)
                     THEN entry
                     ELSE JSONstringify(Object(initial.value))
    /\ videoFile = NoFile
    /\ isSuggestingSettings = FALSE
    /\ geminiError = NoError
    /\ response = answer

\* A first visit: localStorage holds no entry.
Init == InitHook /\ InitApp(NoEntry, CallFailed)

\* ------------------------------------------------------- state setters
\* React drops state updates of an unmounted component.
SetIsProcessing(h, v) == IF h.mounted THEN [h EXCEPT !.isProcessing = v] ELSE h

\* setInternalProcessedVideoUrl, and the effect of lines 51-58 that the
\* render after it runs: when the URL changed, the cleanup of the effect
\* revokes the one held before.
SetProcessedVideoUrl(h, v) ==
    IF h.mounted
    THEN [h EXCEPT !.processedVideoUrl = v,
                   !.objectUrls = IF v # h.processedVideoUrl
                                  THEN @ \ {h.processedVideoUrl}
                                  ELSE @]
    ELSE h

SetProcessingError(h, v) ==
    IF h.mounted THEN [h EXCEPT !.processingError = v] ELSE h

SetProgress(h, v) == IF h.mounted THEN [h EXCEPT !.progress = v] ELSE h

\* ------------------------------------------------------------- helpers
\* if (mediaRecorderRef.current && mediaRecorderRef.current.state === 'recording')
\*     mediaRecorderRef.current.stop();
\* stop() makes the recorder inactive at once and queues its dataavailable
\* and stop events.
StopIfRecording(h) ==
    LET r == h.mediaRecorderRef IN
    IF r # 0 /\ h.recorder[r].state = "recording"
    THEN [h EXCEPT !.recorder[r].state = "inactive",
                   !.recorder[r].queue = <<"dataavailable", "stop">>]
    ELSE h

\* if (animationFrameIdRef.current) cancelAnimationFrame(animationFrameIdRef.current);
\* animationFrameIdRef.current = 0;
CancelFrame(h) ==
    [h EXCEPT !.scheduled = @ \ {h.animationFrameIdRef},
              !.animationFrameIdRef = 0]

\* pause(); removeAttribute('src'); load(): the element stops and is reset,
\* its pending media events are dropped, a pending play() promise will be
\* rejected.
ReleaseVideo(h) ==
    LET v == h.sourceVideoRef IN
    IF v # 0
    THEN [h EXCEPT !.video[v].paused = TRUE,
                   !.video[v].ended = FALSE,
                   !.video[v].pos = 0,
                   !.video[v].src = IF @ = "unset" THEN "unset" ELSE "removed",
                   !.video[v].events = {},
                   !.sourceVideoRef = 0]
    ELSE h

CloseAudio(h) ==
    LET a == h.audioContextRef IN
    IF a # 0 /\ h.audio[a] # "closed"
    THEN [h EXCEPT !.audio[a] = "closed", !.audioContextRef = 0]
    ELSE h

ClearRecorderRef(h) ==
    [h EXCEPT !.mediaRecorderRef = 0, !.recordedChunksRef = <<>>]

ClearCanvasRef(h) == [h EXCEPT !.canvasRef = 0]

\* cleanup without lines 33-34
cleanupKeepingRecorder(h) ==
    CloseAudio(ClearCanvasRef(ReleaseVideo(StopIfRecording(CancelFrame(h)))))

cleanup(h) ==
    CloseAudio(ClearCanvasRef(ReleaseVideo(ClearRecorderRef(
        StopIfRecording(CancelFrame(h))))))

Resolve(h, s, url) ==
    IF h.promise[s].state = "pending"
    THEN [h EXCEPT !.promise[s].state = "resolved", !.promise[s].url = url]
    ELSE h

\* reject(value): the promise keeps the kind of value it was rejected with
\* and the message of that value.
RejectWith(h, s, value) ==
    IF h.promise[s].state = "pending"
    THEN [h EXCEPT !.promise[s].state = "rejected",
                   !.promise[s].error = value.message,
                   !.promise[s].kind = value.type]
    ELSE h

\* reject(new Error(err)); the reason play() is rejected with is an Error of
\* the browser.
Reject(h, s, err) == RejectWith(h, s, NewError(err))

\* setProcessingError(err); setIsProcessing(false); cleanup(); reject(err)
Fail(h, s, err) ==
    Reject(cleanup(SetIsProcessing(SetProcessingError(h, err), FALSE)), s, err)

\* processVideo that keeps the angles an earlier session left
BeginSessionKeepingAngles(h, s) ==
    LET h1 == SetProgress(SetProcessingError(SetProcessedVideoUrl(
                  SetIsProcessing(h, TRUE), 0), NoError), 0)
        h2 == cleanup(h1)
    IN [h2 EXCEPT !.linesFrames = 0,
                  !.promise[s].state = "pending",
                  !.sourceVideoRef = s,
                  !.canvasRef = s]

\* -------------------------------------------------------- processVideo
\* Lines 72-88: reset the exposed state, tear down whatever is there, then
\* create the call's video element and canvas.
BeginSession(h, s) ==
    LET h1 == SetProgress(SetProcessingError(SetProcessedVideoUrl(
                  SetIsProcessing(h, TRUE), 0), NoError), 0)
        h2 == cleanup(h1)
    IN [h2 EXCEPT !.rotationAngle1Ref = 0,
                  !.rotationAngle2Ref = HalfPi,
                  !.linesFrames = 0,
                  !.promise[s].state = "pending",
                  !.sourceVideoRef = s,
                  !.canvasRef = s]

\* SetupSession with video.src assigned before the setup checks
SetupSessionSrcFirst(h, s, ctxOk, audioOk) ==
    LET h1 == [h EXCEPT !.video[s].src = "set"] IN
    IF ~ctxOk THEN Fail(h1, s, CanvasContextError)
    ELSE IF ~audioOk THEN Fail(h1, s, AudioContextError)
    ELSE [h1 EXCEPT !.audioContextRef = s, !.audio[s] = "running"]

\* Lines 90-110 and 339: the two setup checks, then video.src is assigned.
SetupSession(h, s, ctxOk, audioOk) ==
    IF ~ctxOk THEN Fail(h, s, CanvasContextError)
    ELSE IF ~audioOk THEN Fail(h, s, AudioContextError)
    ELSE [h EXCEPT !.audioContextRef = s,
                   !.audio[s] = "running",
                   !.video[s].src = "set"]

\* ------------------------------------------------- video.onloadedmetadata
\* video.play(): an allowed request unpauses the element and queues its play
\* event; a refused one leaves it paused. Either way the promise is pending
\* until the browser settles it.
Play(h, s, playOk) ==
    IF playOk
    THEN [h EXCEPT !.video[s].paused = FALSE,
                   !.video[s].events = @ \cup {"play"},
                   !.video[s].playPending = TRUE,
                   !.video[s].playCalled = TRUE]
    ELSE [h EXCEPT !.video[s].playPending = TRUE,
                   !.video[s].playCalled = TRUE]

\* Lines 160-172 and 317: the recorder is constructed into the shared ref, the
\* chunk buffer is replaced, the recorder is started.
StartRecorder(h, s) ==
    [h EXCEPT !.mediaRecorderRef = s,
              !.recordedChunksRef = <<>>,
              !.recorder[s].state = "recording"]

\* gainNode.gain.value = settings.volume / 100
Gain(volume) == Number(volume.num \div 100)

\* hasAudioTracks || hasMozAudio || hasWebkitAudio
HasAudio(f) ==
    \/ "audioTracks" \in f.signals
    \/ "mozHasAudio" \in f.signals
    \/ "webkitAudioDecodedByteCount" \in f.signals

\* ApplySettings that keeps the audio track of a graph that threw
ApplySettingsAnyTrack(h, s) ==
    [h EXCEPT !.canvas[s].width = h.file[s].width,
              !.canvas[s].height = h.file[s].height,
              !.applied[s] =
                 [preservesPitch |-> h.settings[s].audioPreservesPitch,
                  playbackRate |-> h.settings[s].playbackSpeed,
                  muted |-> TRUE,
                  gain |-> IF HasAudio(h.file[s])
                           THEN Gain(h.settings[s].volume)
                           ELSE Unset,
                  tracks |-> IF HasAudio(h.file[s])
                             THEN {"video", "audio"}
                             ELSE {"video"}]]

\* Lines 113-147: the canvas takes the dimensions of the video; the video and
\* the gain node take their parameters from the settings of the call. The
\* combined stream has the video track of the canvas and, when a signal
\* reports audio and the graph is built without an exception, the audio
\* track behind the gain node.
ApplySettings(h, s) ==
    LET audioTrack == HasAudio(h.file[s]) /\ ~h.file[s].graphThrows IN
    [h EXCEPT !.canvas[s].width = h.file[s].width,
              !.canvas[s].height = h.file[s].height,
              !.applied[s] =
                 [preservesPitch |-> h.settings[s].audioPreservesPitch,
                  playbackRate |-> h.settings[s].playbackSpeed,
                  muted |-> TRUE,
                  gain |-> IF audioTrack
                           THEN Gain(h.settings[s].volume)
                           ELSE Unset,
                  tracks |-> IF audioTrack
                             THEN {"video", "audio"}
                             ELSE {"video"}]]

\* LoadedMetadata with the recorder constructed and started before the
\* isTypeSupported check
LoadedMetadataLateCheck(h, s, mimeOk, ctorOk, playOk) ==
    LET h1 == ApplySettings([h EXCEPT !.video[s].meta = TRUE], s) IN
    IF ~ctorOk THEN Fail(h1, s, RecorderCtorError)
    ELSE IF ~mimeOk THEN Fail(StartRecorder(h1, s), s, MimeTypeError)
    ELSE Play(StartRecorder(h1, s), s, playOk)

\* Lines 112-172 and 317-318
LoadedMetadata(h, s, mimeOk, ctorOk, playOk) ==
    LET h1 == ApplySettings([h EXCEPT !.video[s].meta = TRUE], s) IN
    IF ~mimeOk THEN Fail(h1, s, MimeTypeError)
    ELSE IF ~ctorOk THEN Fail(h1, s, RecorderCtorError)
    ELSE Play(StartRecorder(h1, s), s, playOk)

\* ---------------------------------------------------- recorder handlers
\* mediaRecorder.ondataavailable
DataAvailable(h, s, size) ==
    IF size > 0
    THEN [h EXCEPT !.recordedChunksRef = Append(@, [rec |-> s, size |-> size]),
                   !.delivered[s] = Append(@, [rec |-> s, size |-> size])]
    ELSE h

\* mediaRecorder.onstop; the object URL it creates is named after the session
\* and is that of a Blob of the chunks recordedChunksRef holds, which the
\* handler leaves as they are.
RecorderStopped(h, s) ==
    LET h0 == [h EXCEPT !.objectUrls = @ \cup {s}, !.delivered[s] = <<>>]
        h1 == SetProgress(SetIsProcessing(SetProcessedVideoUrl(h0, s), FALSE), 100)
        h2 == Resolve(h1, s, s)
    IN CancelFrame([h2 EXCEPT !.mediaRecorderRef = 0])

\* mediaRecorder.onerror
\* recorderEventError && typeof recorderEventError.name === 'string': an
\* object that has a name, which is a string; a primitive has no name.
HasStringName(recorderEventError) ==
    /\ recorderEventError.type = "object"
    /\ "name" \in DOMAIN recorderEventError.fields
    /\ TypeOf(recorderEventError.fields.name) = "string"

\* ` - ${recorderEventError.message}` when the message is truthy
MessageSuffix(fields) ==
    IF "message" \in DOMAIN fields /\ Truthy(fields.message)
    THEN <<" - ", fields.message.str>>
    ELSE <<>>

\* Lines 194-207: errorMessageText
ErrorMessageText(recorderEventError) ==
    IF recorderEventError.type = "Error"
    THEN <<"MediaRecorder error: ", recorderEventError.name, " - ">>
            \o recorderEventError.message
    ELSE IF HasStringName(recorderEventError)
    THEN <<"MediaRecorder error: ", recorderEventError.fields.name.str>>
            \o MessageSuffix(recorderEventError.fields)
    ELSE RecorderError

\* Lines 194-207: errorToReject
ErrorToReject(recorderEventError) ==
    IF recorderEventError.type = "Error"
    THEN recorderEventError
    ELSE IF HasStringName(recorderEventError)
    THEN ErrorObject(recorderEventError.fields.name.str,
                     ErrorMessageText(recorderEventError))
    ELSE NewError(ErrorMessageText(recorderEventError))

\* mediaRecorder.onerror that surfaces the generic message for every event
RecorderErroredUnspecified(h, s, recorderEventError) ==
    RejectWith(
        cleanup(SetIsProcessing(SetProcessingError(
            [h EXCEPT !.eventError = recorderEventError],
            RecorderError), FALSE)),
        s, ErrorToReject(recorderEventError))

\* mediaRecorder.onerror
RecorderErrored(h, s, recorderEventError) ==
    RejectWith(
        cleanup(SetIsProcessing(SetProcessingError(
            [h EXCEPT !.eventError = recorderEventError],
            ErrorMessageText(recorderEventError)), FALSE)),
        s, ErrorToReject(recorderEventError))

\* ------------------------------------------------------------ drawFrame
\* Math.round(x / d * 100) for non-negative x and positive d
RoundPercent(x, d) == (200 * x + d) \div (2 * d)

FrameGuard(h) ==
    \/ h.sourceVideoRef = 0
    \/ h.video[h.sourceVideoRef].paused
    \/ h.video[h.sourceVideoRef].ended
    \/ h.canvasRef = 0

\* The % of JavaScript: the remainder has the sign of the dividend.
Remainder(a, n) == IF a >= 0 THEN a % n ELSE -((-a) % n)

\* AdvanceAngles whose second angle is not brought back above zero
AdvanceAnglesUnwrapped(h) ==
    [h EXCEPT
        !.rotationAngle1Ref = Remainder(@ + rotationIncrementPerFrame, TwoPi),
        !.rotationAngle2Ref = Remainder(@ - rotationIncrementPerFrame, TwoPi),
        !.linesFrames = (@ + 1) % (ROTATION_DURATION_SECONDS * FPS)]

\* Lines 256-259
AdvanceAngles(h) ==
    [h EXCEPT
        !.rotationAngle1Ref = Remainder(@ + rotationIncrementPerFrame, TwoPi),
        !.rotationAngle2Ref =
            Remainder(Remainder(@ - rotationIncrementPerFrame, TwoPi) + TwoPi,
                      TwoPi),
        !.linesFrames = (@ + 1) % (ROTATION_DURATION_SECONDS * FPS)]

\* NumNoisePixels counting one mark for every hundred pixels
NumNoisePixelsPerCent(currentCanvas) ==
    (currentCanvas.width * currentCanvas.height) \div 100

\* Math.floor((currentCanvas.width * currentCanvas.height) * 0.001): the
\* double 0.001 lies above one thousandth by less than one part in 10^16, so
\* for canvas dimensions the product never rounds to below a whole number.
NumNoisePixels(currentCanvas) ==
    (currentCanvas.width * currentCanvas.height) \div 1000

\* Lines 228-283: what one frame paints through the context of the call: the
\* source frame, flipped and filtered as the settings of the call say, the
\* noise marks, the two lines.
Paint(h, s) ==
    LET currentCanvas == h.canvas[h.canvasRef] IN
    [drawn |-> TRUE,
     flip |-> Truthy(h.settings[s].flipHorizontal),
     filter |-> <<h.settings[s].brightness, h.settings[s].contrast,
                  h.settings[s].saturation>>,
     noise |-> IF Truthy(h.settings[s].enablePixelNoise)
               THEN NumNoisePixels(currentCanvas)
               ELSE 0,
     lines |-> Truthy(h.settings[s].enableRotatingLines)]

\* DrawFrame whose guard branch asks for another frame
DrawFrameRescheduling(h, s) ==
    LET h0 == [h EXCEPT !.scheduled = @ \ {s}] IN
    IF FrameGuard(h0)
    THEN [StopIfRecording(h0) EXCEPT !.animationFrameIdRef = s,
                                     !.scheduled = @ \cup {s}]
    ELSE LET h1 == IF Truthy(h0.settings[s].enableRotatingLines)
                   THEN AdvanceAngles(h0)
                   ELSE h0
             p == Min(100, RoundPercent(h1.video[h1.sourceVideoRef].pos, Duration))
             h2 == IF Duration > 0 THEN SetProgress(h1, p) ELSE h1
         IN [h2 EXCEPT !.canvas[s].painted = Paint(h1, s),
                       !.animationFrameIdRef = s,
                       !.scheduled = @ \cup {s}]

\* Lines 218-289: the guard, the frame, the progress report, the next frame
DrawFrame(h, s) ==
    LET h0 == [h EXCEPT !.scheduled = @ \ {s}] IN
    IF FrameGuard(h0)
    THEN CancelFrame(StopIfRecording(h0))
    ELSE LET h1 == IF Truthy(h0.settings[s].enableRotatingLines)
                   THEN AdvanceAngles(h0)
                   ELSE h0
             p == Min(100, RoundPercent(h1.video[h1.sourceVideoRef].pos, Duration))
             h2 == IF Duration > 0 THEN SetProgress(h1, p) ELSE h1
         IN [h2 EXCEPT !.canvas[s].painted = Paint(h1, s),
                       !.animationFrameIdRef = s,
                       !.scheduled = @ \cup {s}]

\* ------------------------------------------------------- video handlers
\* video.onplay
Played(h, s) ==
    [h EXCEPT !.video[s].events = @ \ {"play"},
              !.animationFrameIdRef = s,
              !.scheduled = @ \cup {s}]

\* video.onended
Ended(h, s) ==
    CancelFrame(StopIfRecording([h EXCEPT !.video[s].events = @ \ {"ended"}]))

\* video.onerror installed by onloadedmetadata, and the catch of video.play()
FailStopping(h, s, err) ==
    Reject(cleanup(StopIfRecording(
        SetIsProcessing(SetProcessingError(h, err), FALSE))), s, err)

\* ---------------------------------------------------------------- steps
\* A play() promise is rejected at once when the request is refused, and in
\* the same task when pause()/load() aborts it; its catch handler is a
\* microtask and runs before any other task.
RejectionPending(s) == video[s].playPending /\ video[s].paused

NoMicrotask == \A s \in Sessions : ~RejectionPending(s)

Did(name, s) == lastOp' = [op |-> name, s |-> s]

Broke(s, what) == fault' = [fault EXCEPT ![s] = what]

SetupFault(ctxOk, audioOk) ==
    IF ~ctxOk THEN "canvas" ELSE IF ~audioOk THEN "audio" ELSE "none"

MetadataFault(mimeOk, ctorOk, playOk) ==
    IF ~mimeOk THEN "mime"
    ELSE IF ~ctorOk THEN "ctor" ELSE IF ~playOk THEN "play" ELSE "none"

\* processVideo(videoFile, settings): the call binds its two parameters for
\* every closure it creates.
ProcessVideoWith(limit, videoFileArg, settingsArg) ==
    /\ NoMicrotask
    /\ mounted
    /\ nSessions < limit
    /\ \E ctxOk, audioOk \in BOOLEAN :
          LET s == nSessions + 1
              h == [Cur EXCEPT !.settings[s] = settingsArg,
                               !.file[s] = videoFileArg]
          IN
          /\ Commit(SetupSession(BeginSession(h, s), s, ctxOk, audioOk))
          /\ Broke(s, SetupFault(ctxOk, audioOk))
          /\ Did("processVideo", s)
          /\ requested' = [requested EXCEPT ![s] = currentSettings]
    /\ nSessions' = nSessions + 1
    /\ superseded' = superseded \cup
                       {t \in Sessions : promise[t].state = "pending"}
    /\ UNCHANGED appVars

\* A call of the hook from outside the App, at any moment.
ProcessVideo(limit) == ProcessVideoWith(limit, AnyFile, currentSettings)

OnLoadedMetadata(s) ==
    /\ NoMicrotask
    /\ video[s].src = "set" /\ ~video[s].meta
    /\ \E mimeOk, ctorOk, playOk \in BOOLEAN :
          /\ Commit(LoadedMetadata(Cur, s, mimeOk, ctorOk, playOk))
          /\ Broke(s, MetadataFault(mimeOk, ctorOk, playOk))
    /\ Did("onloadedmetadata", s)
    /\ UNCHANGED <<nSessions, superseded, requested, appVars>>

OnLoadError(s) ==
    /\ NoMicrotask
    /\ video[s].src = "set" /\ ~video[s].meta
    /\ Commit(Fail(Cur, s, LoadError))
    /\ Did("onerror(load)", s)
    /\ Broke(s, "load")
    /\ UNCHANGED <<nSessions, superseded, requested, appVars>>

OnPlay(s) ==
    /\ NoMicrotask
    /\ "play" \in video[s].events
    /\ Commit(Played(Cur, s))
    /\ Did("onplay", s)
    /\ UNCHANGED <<nSessions, superseded, fault, requested, appVars>>

\* The browser starts playback and resolves the play() promise.
PlayResolved(s) ==
    /\ NoMicrotask
    /\ video[s].playPending /\ ~video[s].paused /\ "play" \notin video[s].events
    /\ Commit([Cur EXCEPT !.video[s].playPending = FALSE])
    /\ Did("playing", s)
    /\ UNCHANGED <<nSessions, superseded, fault, requested, appVars>>

PlayRejected(s) ==
    /\ RejectionPending(s)
    /\ Commit(FailStopping([Cur EXCEPT !.video[s].playPending = FALSE],
                           s, PlayRejectError))
    /\ Did("play.catch", s)
    /\ UNCHANGED <<nSessions, superseded, fault, requested, appVars>>

\* Playback advances; reaching the end sets ended, pauses the element and
\* queues the ended event.
Advance(s) ==
    /\ NoMicrotask
    /\ video[s].src = "set" /\ video[s].meta
    /\ ~video[s].paused /\ ~video[s].ended /\ ~video[s].playPending
    /\ \E p \in Positions :
          /\ p > video[s].pos
          /\ Commit(IF p = Duration
                    THEN [Cur EXCEPT !.video[s].pos = p,
                                     !.video[s].ended = TRUE,
                                     !.video[s].paused = TRUE,
                                     !.video[s].events = @ \cup {"ended"}]
                    ELSE [Cur EXCEPT !.video[s].pos = p])
    /\ Did("timeupdate", s)
    /\ UNCHANGED <<nSessions, superseded, fault, requested, appVars>>

OnEnded(s) ==
    /\ NoMicrotask
    /\ "ended" \in video[s].events
    /\ Commit(Ended(Cur, s))
    /\ Did("onended", s)
    /\ UNCHANGED <<nSessions, superseded, fault, requested, appVars>>

OnVideoError(s) ==
    /\ NoMicrotask
    /\ video[s].src = "set" /\ video[s].meta /\ ~video[s].ended
    /\ Commit(FailStopping(Cur, s, PlaybackError))
    /\ Did("onerror(playback)", s)
    /\ Broke(s, "playback")
    /\ UNCHANGED <<nSessions, superseded, requested, appVars>>

OnAnimationFrame(s) ==
    /\ NoMicrotask
    /\ s \in scheduled
    /\ Commit(DrawFrame(Cur, s))
    /\ Did("drawFrame", s)
    /\ UNCHANGED <<nSessions, superseded, fault, requested, appVars>>

\* start() is called without a timeslice and requestData() is never called:
\* a recorder delivers its data once, when it stops, before its stop event.
OnDataAvailable(s) ==
    /\ NoMicrotask
    /\ recorder[s].queue # <<>> /\ Head(recorder[s].queue) = "dataavailable"
    /\ \E size \in {0, 1} :
          Commit(DataAvailable([Cur EXCEPT !.recorder[s].queue = Tail(@)], s, size))
    /\ Did("ondataavailable", s)
    /\ UNCHANGED <<nSessions, superseded, fault, requested, appVars>>

OnStop(s) ==
    /\ NoMicrotask
    /\ recorder[s].queue # <<>> /\ Head(recorder[s].queue) = "stop"
    /\ Commit(RecorderStopped([Cur EXCEPT !.recorder[s].queue = Tail(@)], s))
    /\ Did("onstop", s)
    /\ UNCHANGED <<nSessions, superseded, fault, requested, appVars>>

\* The recorder cannot go on: it becomes inactive, raises error, then
\* delivers its final chunk and its stop event.
OnRecorderErrorWith(s, errors) ==
    /\ NoMicrotask
    /\ recorder[s].state = "recording"
    /\ \E recorderEventError \in errors :
          Commit(RecorderErrored(
              [Cur EXCEPT !.recorder[s].state = "inactive",
                          !.recorder[s].queue = <<"dataavailable", "stop">>],
              s, recorderEventError))
    /\ Did("recorder.onerror", s)
    /\ Broke(s, "recorder")
    /\ UNCHANGED <<nSessions, superseded, requested, appVars>>

\* A recorder error event that carries no error
OnRecorderError(s) == OnRecorderErrorWith(s, {Undefined})

\* The effect cleanups of lines 51-58 and 60-64: the URL held is revoked,
\* cleanup() runs.
Unmount ==
    /\ NoMicrotask
    /\ mounted
    /\ Commit([cleanup(Cur) EXCEPT !.mounted = FALSE,
                                   !.objectUrls = @ \ {processedVideoUrl}])
    /\ Did("unmount", 0)
    /\ UNCHANGED <<nSessions, superseded, fault, requested, appVars>>

\* ------------------------------------------------------------- the App
controlsDisabled == videoFile = NoFile \/ isProcessing \/ isSuggestingSettings

\* setCurrentSettings(newSettings), and the two effects that depend on
\* currentSettings: the value is saved, the debounce timer is set again.
SetCurrentSettings(newSettings) ==
    /\ currentSettings' = newSettings
    /\ localStorage' = JSONstringify(Object(newSettings))
    /\ debounceTimer' = TRUE

HookUnchanged == UNCHANGED <<hookVars, nSessions, superseded, fault, requested>>

\* The uploader is rendered while no file is selected.
HandleFileSelect(files) ==
    /\ NoMicrotask
    /\ mounted
    /\ videoFile = NoFile /\ ~isProcessing /\ ~isSuggestingSettings
    /\ \E f \in files : videoFile' = f
    /\ Commit(SetProcessedVideoUrl(Cur, 0))
    /\ geminiError' = NoError
    /\ Did("handleFileSelect", 0)
    /\ UNCHANGED <<currentSettings, debouncedSettingsForPreview, debounceTimer,
                   localStorage, savedSettings, isSuggestingSettings, response,
                   uncaught>>
    /\ UNCHANGED <<nSessions, superseded, fault, requested>>

HandleUploadDifferent ==
    /\ NoMicrotask
    /\ mounted
    /\ videoFile # NoFile /\ ~isProcessing /\ ~isSuggestingSettings
    /\ videoFile' = NoFile
    /\ Commit(SetProcessedVideoUrl(Cur, 0))
    /\ geminiError' = NoError
    /\ Did("handleUploadDifferent", 0)
    /\ UNCHANGED <<currentSettings, debouncedSettingsForPreview, debounceTimer,
                   localStorage, savedSettings, isSuggestingSettings, response,
                   uncaught>>
    /\ UNCHANGED <<nSessions, superseded, fault, requested>>

\* handleSliderChange, for a slider that is not disabled
HandleSliderChange(keys) ==
    /\ NoMicrotask
    /\ mounted
    /\ ~controlsDisabled
    /\ \E key \in keys :
          \E value \in SliderValues(key) :
              SetCurrentSettings([currentSettings EXCEPT ![key] = Number(value)])
    /\ Did("handleSliderChange", 0)
    /\ UNCHANGED <<videoFile, debouncedSettingsForPreview, savedSettings,
                   isSuggestingSettings, geminiError, response, uncaught>>
    /\ HookUnchanged

\* handleToggleChange(key, !settings[key]), for a toggle that is not disabled
HandleToggleChange(keys) ==
    /\ NoMicrotask
    /\ mounted
    /\ ~controlsDisabled
    /\ \E key \in keys :
          SetCurrentSettings(
              [currentSettings EXCEPT ![key] = Bool(~Truthy(currentSettings[key]))])
    /\ Did("handleToggleChange", 0)
    /\ UNCHANGED <<videoFile, debouncedSettingsForPreview, savedSettings,
                   isSuggestingSettings, geminiError, response, uncaught>>
    /\ HookUnchanged

\* handleReset that leaves the four toggles as they are
HandleResetSliders ==
    /\ NoMicrotask
    /\ mounted
    /\ ~controlsDisabled
    /\ SetCurrentSettings(
          [key \in SettingsKeys |->
              IF key \in DOMAIN sliders
              THEN DEFAULT_VIDEO_SETTINGS[key]
              ELSE currentSettings[key]])
    /\ Did("handleReset", 0)
    /\ UNCHANGED <<videoFile, debouncedSettingsForPreview, savedSettings,
                   isSuggestingSettings, geminiError, response, uncaught>>
    /\ HookUnchanged

HandleReset ==
    /\ NoMicrotask
    /\ mounted
    /\ ~controlsDisabled
    /\ SetCurrentSettings(DEFAULT_VIDEO_SETTINGS)
    /\ Did("handleReset", 0)
    /\ UNCHANGED <<videoFile, debouncedSettingsForPreview, savedSettings,
                   isSuggestingSettings, geminiError, response, uncaught>>
    /\ HookUnchanged

\* The timer of the debounce effect fires.
DebounceElapsed ==
    /\ NoMicrotask
    /\ mounted
    /\ debounceTimer
    /\ debouncedSettingsForPreview' = currentSettings
    /\ debounceTimer' = FALSE
    /\ Did("debounce", 0)
    /\ UNCHANGED <<videoFile, currentSettings, localStorage, savedSettings,
                   isSuggestingSettings, geminiError, response, uncaught>>
    /\ HookUnchanged

\* handleProcessVideo passing the debounced settings
HandleProcessVideoDebounced(limit) ==
    /\ ~controlsDisabled
    /\ ProcessVideoWith(limit, videoFile, debouncedSettingsForPreview)

\* handleProcessVideo, for a button that is not disabled
HandleProcessVideo(limit) ==
    /\ ~controlsDisabled
    /\ ProcessVideoWith(limit, videoFile, currentSettings)

\* handleSuggestSettings up to its await. The button is rendered when the AI
\* client exists and is enabled when the prompt is not blank, so the two
\* early returns are never taken.
HandleSuggestSettings ==
    /\ NoMicrotask
    /\ mounted
    /\ ~controlsDisabled
    /\ isSuggestingSettings' = TRUE
    /\ geminiError' = NoError
    /\ Did("handleSuggestSettings", 0)
    /\ UNCHANGED <<videoFile, currentSettings, debouncedSettingsForPreview,
                   debounceTimer, localStorage, savedSettings, response,
                   uncaught>>
    /\ HookUnchanged

\* Ingest with a catch block that sets no error
IngestSilent(current, error, answer) ==
    IF SuggestionThrows(answer)
    THEN [set |-> FALSE, value |-> current, error |-> error]
    ELSE LET suggested == JSONparse(StripFence(answer)) IN
         [set |-> TRUE,
          value |-> NewSettings(suggested),
          error |-> IF AllFieldsValid(suggested) THEN error ELSE PartialWarning]

\* Lines 184-234: what the handler does with the answer: whether it calls
\* setCurrentSettings and with what, and what geminiError is afterwards.
Ingest(current, error, answer) ==
    IF SuggestionThrows(answer)
    THEN [set |-> FALSE, value |-> current, error |-> SuggestFailedError]
    ELSE LET suggested == JSONparse(StripFence(answer)) IN
         [set |-> TRUE,
          value |-> NewSettings(suggested),
          error |-> IF AllFieldsValid(suggested) THEN error ELSE PartialWarning]

\* handleSuggestSettings from its await on
SuggestionReturned ==
    /\ NoMicrotask
    /\ mounted
    /\ isSuggestingSettings
    /\ LET done == Ingest(currentSettings, geminiError, response) IN
          /\ IF done.set
             THEN SetCurrentSettings(done.value)
             ELSE UNCHANGED <<currentSettings, localStorage, debounceTimer>>
          /\ geminiError' = done.error
    /\ isSuggestingSettings' = FALSE
    /\ Did("suggestion", 0)
    /\ UNCHANGED <<videoFile, debouncedSettingsForPreview, savedSettings,
                   response, uncaught>>
    /\ HookUnchanged

\* What the browser and React may do between two processVideo calls.
Event ==
    \/ Unmount
    \/ \E s \in Sessions : OnLoadedMetadata(s)
    \/ \E s \in Sessions : OnLoadError(s)
    \/ \E s \in Sessions : OnPlay(s)
    \/ \E s \in Sessions : PlayResolved(s)
    \/ \E s \in Sessions : PlayRejected(s)
    \/ \E s \in Sessions : Advance(s)
    \/ \E s \in Sessions : OnEnded(s)
    \/ \E s \in Sessions : OnVideoError(s)
    \/ \E s \in Sessions : OnAnimationFrame(s)
    \/ \E s \in Sessions : OnDataAvailable(s)
    \/ \E s \in Sessions : OnStop(s)
    \/ \E s \in Sessions : OnRecorderError(s)

\* The events of a recording that the browser carries through: its media
\* events, frames and recorder events, and the rejection of play().
Playback ==
    \/ \E s \in Sessions : OnLoadedMetadata(s)
    \/ \E s \in Sessions : OnPlay(s)
    \/ \E s \in Sessions : PlayResolved(s)
    \/ \E s \in Sessions : PlayRejected(s)
    \/ \E s \in Sessions : Advance(s)
    \/ \E s \in Sessions : OnEnded(s)
    \/ \E s \in Sessions : OnAnimationFrame(s)
    \/ \E s \in Sessions : OnDataAvailable(s)
    \/ \E s \in Sessions : OnStop(s)

Next == ProcessVideo(MaxSessions) \/ Event

Spec == Init /\ [][Next]_vars

\* The program with room for one more call, three sessions can overlap; the
\* events are those of loading, playing and recording, without the unmount
\* and without the error events of the source and of the recorder.
NextLong == ProcessVideo(MaxSessions + ExtraSessions) \/ Playback

SpecLong == Init /\ [][NextLong]_vars

\* ---------------------------------------------------------- sample inputs
Absent == [type |-> "absent"]

\* The objects that differ from base in at most MaxOdd fields, each of these
\* left out or holding a value of pool.
Variants(base, pool) ==
    UNION {{Object([key \in (DOMAIN base) \ {k \in odd : a[k] = Absent} |->
                       IF key \in odd THEN a[key] ELSE base[key]]) :
               a \in [odd -> pool \cup {Absent}]} :
           odd \in {o \in SUBSET DOMAIN base : Cardinality(o) <= MaxOdd}}

\* A suggestion as the system instruction asks for it
PlainSuggestion ==
    [brightness |-> Number(Hundredths(120)),
     contrast |-> Number(Hundredths(90)),
     saturation |-> Number(Hundredths(110)),
     playbackSpeed |-> Number(Hundredths(12) \div 10),
     volume |-> Number(Hundredths(80)),
     flipHorizontal |-> Bool(TRUE),
     enableRotatingLines |-> Bool(TRUE),
     enablePixelNoise |-> Bool(TRUE),
     audioPreservesPitch |-> Bool(FALSE)]

\* Values a field may hold instead: numbers below every range, at the lower
\* end of the range of playbackSpeed, at the upper end of the percent ranges,
\* above every range; values of the other types.
OddValues ==
    {Number(-Hundredths(1)), Number(Hundredths(1) \div 2),
     Number(Hundredths(200)), Number(Hundredths(500)),
     Bool(TRUE), Bool(FALSE), Str("high"), Null}

\* What the AI call may answer
Answers ==
    {CallFailed, Text("none", Garbage), Text("none", Empty),
     Text("fenced json", Garbage), Text("fenced", Empty)}
    \cup {Text("none", value) :
             value \in {Null, Array, Number(Hundredths(5)), Str("ok"), Bool(TRUE)}}
    \cup {Text("none", value) : value \in Variants(PlainSuggestion, OddValues)}
    \cup {Text(fence, Object(PlainSuggestion)) : fence \in {"fenced", "fenced json"}}

\* ------------------------------------------------------ the AI suggestion
\* The App with a file selected, asking for suggestions; the AI call answers
\* with any of Answers.
InitSuggest == InitHook /\ \E answer \in Answers : InitApp(NoEntry, answer)

NextSuggest ==
    \/ HandleFileSelect({AnyFile})
    \/ HandleSuggestSettings
    \/ SuggestionReturned

SpecSuggest == InitSuggest /\ [][NextSuggest]_vars

\* ------------------------------------------------- the App around the hook
\* The App and the hook together: the user selects a file, flips a toggle,
\* exports; the browser carries the recording through.
NextApp ==
    \/ HandleFileSelect({AnyFile})
    \/ HandleToggleChange({"flipHorizontal"})
    \/ DebounceElapsed
    \/ HandleProcessVideo(AppSessions)
    \/ Playback

SpecApp == Init /\ [][NextApp]_vars

\* The App and the hook together, the user asking for suggestions between
\* exports; the AI call answers with no JSON, with nothing, or with a
\* suggestion that lacks a field.
AssistAnswers ==
    {Text("none", Garbage), Text("fenced", Empty),
     Text("fenced json", Object(
         [key \in SettingsKeys \ {"enableRotatingLines"} |-> PlainSuggestion[key]]))}

InitAssist == InitHook /\ \E answer \in AssistAnswers : InitApp(NoEntry, answer)

NextAssist ==
    \/ HandleFileSelect({AnyFile})
    \/ HandleSuggestSettings
    \/ SuggestionReturned
    \/ HandleProcessVideo(AppSessions)
    \/ Playback

SpecAssist == InitAssist /\ [][NextAssist]_vars

\* ------------------------------------------------------------ the frames
\* An export with the rotating lines: the user selects a file, switches the
\* lines on or off, exports; the browser draws any number of frames.
NextLines ==
    \/ HandleFileSelect({AnyFile})
    \/ HandleToggleChange({"enableRotatingLines"})
    \/ HandleProcessVideo(FrameSessions)
    \/ Playback

SpecLines == Init /\ [][NextLines]_vars

\* Files of several frame sizes: 1000x1000, 1920x1080 (W*H/1000 is 2073.6),
\* 37x27 (999 pixels), and one the browser reports no size for.
Files ==
    {AnyFile, File(1920, 1080, FALSE), File(37, 27, TRUE), File(0, 0, TRUE)}

\* An export with the pixel noise: the user selects one of Files, or another
\* one after it, moves a slider, switches the noise on or off, exports.
NextNoise ==
    \/ HandleFileSelect(Files)
    \/ HandleUploadDifferent
    \/ HandleSliderChange({"playbackSpeed"})
    \/ HandleToggleChange({"enablePixelNoise"})
    \/ HandleProcessVideo(FrameSessions)
    \/ Playback

SpecNoise == Init /\ [][NextNoise]_vars

\* ------------------------------------------------------ restored settings
\* Values a field of the stored object may hold instead of what the App
\* saved: a number below or above every range, a string.
StaleValues == {Number(-Hundredths(1)), Number(Hundredths(500)), Str("yes")}

\* What localStorage may hold when the App is constructed
StoredEntries ==
    {NoEntry, Text("none", Empty), Text("none", Garbage)}
    \cup {Text("none", value) :
             value \in {Null, Array, Number(Hundredths(5)), Str("ok"), Bool(TRUE)}}
    \cup {Text("none", value) : value \in Variants(PlainSuggestion, StaleValues)}

\* The App constructed over any of StoredEntries; the user selects a file,
\* resets, exports.
InitRestore ==
    InitHook /\ \E entry \in StoredEntries : InitApp(entry, CallFailed)

NextRestore ==
    \/ HandleFileSelect({AnyFile})
    \/ HandleReset
    \/ DebounceElapsed
    \/ HandleProcessVideo(FrameSessions)

SpecRestore == InitRestore /\ [][NextRestore]_vars

\* -------------------------------------------------------------- the audio
\* Files with every combination of audio signals, for which the browser
\* builds the audio graph or throws
AudioFiles ==
    {[AnyFile EXCEPT !.signals = signals, !.graphThrows = graphThrows] :
        signals \in SUBSET AudioSignals, graphThrows \in BOOLEAN}

\* The user selects one of AudioFiles, sets the volume, exports.
NextAudio ==
    \/ HandleFileSelect(AudioFiles)
    \/ HandleSliderChange({"volume"})
    \/ HandleProcessVideo(FrameSessions)
    \/ Playback

SpecAudio == Init /\ [][NextAudio]_vars

\* ------------------------------------------------------- the result link
\* File names of up to MaxName characters, letters and dots, not dots only
Names ==
    {name \in UNION {[1..n -> {"a", "b", "."}] : n \in 1..MaxName} :
        \E i \in DOMAIN name : name[i] # "."}

\* The user selects a file of any name and exports it.
NextDownload ==
    \/ HandleFileSelect({NamedFile(name) : name \in Names})
    \/ HandleProcessVideo(FrameSessions)
    \/ Playback

SpecDownload == Init /\ [][NextDownload]_vars

\* ------------------------------------------------------------ vocabulary
Current == nSessions

Recording == {s \in Sessions : recorder[s].state = "recording"}

Pending(s) == promise[s].state = "pending"

Succeeded(s) == promise[s].state = "resolved"

Failed(s) == promise[s].state = "rejected"

TypeOK ==
    /\ isProcessing \in BOOLEAN
    /\ processedVideoUrl \in {0} \cup Sessions
    /\ progress \in 0..100
    /\ sourceVideoRef \in {0} \cup Sessions
    /\ mediaRecorderRef \in {0} \cup Sessions
    /\ animationFrameIdRef \in {0} \cup Sessions
    /\ nSessions \in {0} \cup Sessions

\* ================================================================ claims
\* C1: at most one MediaRecorder is in the 'recording' state at any instant,
\* whatever the sequence of processVideo calls and media/recorder events.
C1_AtMostOneRecording == Cardinality(Recording) <= 1

\* C2: a session that was still active when a later processVideo call began
\* retains no partial result: it never resolves its promise, never publishes
\* its URL, and its stop handler never reports progress 100 or clears
\* isProcessing.
C2_SupersededSessionSilent ==
    \A s \in superseded :
        /\ ~Succeeded(s)
        /\ processedVideoUrl # s
        /\ lastOp = [op |-> "onstop", s |-> s] => (progress # 100 /\ isProcessing)

\* C3: progress is 100 only when the current session completed successfully
\* (its recorder stopped and its promise resolved with a URL); never while it
\* is recording, after it failed, or after a session was cancelled.
C3_HundredOnlyOnSuccess ==
    progress = 100 =>
        /\ Current > 0
        /\ Succeeded(Current)
        /\ recorder[Current].state = "inactive"

\* C4: progress is 0 right after processVideo starts a session, and until that
\* session completes the reported values never decrease and stay in 0..100.
C4_ProgressMonotone ==
    [][/\ lastOp'.op = "processVideo" => progress' = 0
       /\ (Current > 0 /\ nSessions' = nSessions /\ Pending(Current))
             => (progress' >= progress /\ progress' \in 0..100)]_vars

Range(q) == {q[i] : i \in DOMAIN q}

\* No ref holds anything: the state cleanup leaves behind.
Idle(h) ==
    /\ h.sourceVideoRef = 0
    /\ h.canvasRef = 0
    /\ h.mediaRecorderRef = 0
    /\ h.audioContextRef = 0
    /\ h.animationFrameIdRef = 0
    /\ h.recordedChunksRef = <<>>

\* C5: once a fatal failure of the current session has been returned, the
\* error is surfaced, isProcessing is false and nothing of the failed session
\* is held: every ref is null, its recorder is not recording, no frame is
\* scheduled and the chunk buffer is empty.
C5_FailedSessionReleased ==
    \A s \in Sessions :
        (s = Current /\ fault[s] # "none" /\ Failed(s) /\ mounted) =>
            /\ processingError # NoError
            /\ ~isProcessing
            /\ Idle(Cur)
            /\ recorder[s].state # "recording"
            /\ s \notin scheduled

\* C6: cleanup leaves no ref holding anything, a second cleanup right after
\* changes nothing, and a cleanup with nothing held changes nothing; so the
\* state is idle after an unmount and after a processVideo call that failed
\* in setup (cleanup ran twice in it).
C6_CleanupIdempotent ==
    LET h1 == cleanup(Cur) IN
    /\ Idle(h1)
    /\ cleanup(h1) = h1
    /\ Idle(Cur) => h1 = Cur
    /\ lastOp.op = "unmount" => Idle(Cur)
    /\ (lastOp.op = "processVideo" /\ Failed(lastOp.s)) => Idle(Cur)

\* A recording session was torn down by the unmount cleanup.
C6_Witness ==
    /\ lastOp.op = "unmount"
    /\ \E s \in Sessions :
          /\ recorder[s].queue = <<"dataavailable", "stop">>
          /\ audio[s] = "closed"
          /\ video[s].src = "removed"

\* C7: when the stop handler has run for a successfully completed session,
\* everything the session owned is released: the video paused, detached and
\* dropped, the canvas dropped, the audio context closed, the recorder ref
\* cleared and no frame scheduled.
C7_ReleasedAtStop ==
    \A s \in Sessions :
        (lastOp = [op |-> "onstop", s |-> s] /\ s = Current /\ Succeeded(s)) =>
            /\ sourceVideoRef = 0
            /\ video[s].src = "removed"
            /\ canvasRef = 0
            /\ audio[s] = "closed"
            /\ mediaRecorderRef = 0
            /\ animationFrameIdRef = 0
            /\ scheduled = {}

\* C8: natural stop completes the operation: when the ended handler has run,
\* or a frame found the source paused or ended, the recorder of that session
\* is no longer recording (so that its stop handler can publish the result).
C8_NaturalStopStopsRecorder ==
    \A s \in Sessions :
        (\/ lastOp = [op |-> "onended", s |-> s]
         \/ lastOp = [op |-> "drawFrame", s |-> s] /\ FrameGuard(Cur))
            => recorder[s].state # "recording"

\* C9: a session whose MIME type was reported unsupported has failed with a
\* message that names the type, and never had a MediaRecorder constructed or
\* recording, nor playback started.
C9_UnsupportedMimeAborts ==
    \A s \in Sessions :
        fault[s] = "mime" =>
            /\ Failed(s)
            /\ MimeType \in Range(promise[s].error)
            /\ lastOp = [op |-> "onloadedmetadata", s |-> s] /\ mounted
                  => processingError = promise[s].error
            /\ recorder[s].state = "none"
            /\ ~video[s].playCalled
            /\ "play" \notin video[s].events

C9_Witness ==
    \E s \in Sessions :
        fault[s] = "mime" /\ lastOp = [op |-> "onloadedmetadata", s |-> s]

\* C10: a session whose canvas context or AudioContext was unavailable has
\* been rejected with that error, and never had video.src assigned, a
\* MediaRecorder constructed, playback requested or a frame scheduled.
C10_SetupFailureAborts ==
    \A s \in Sessions :
        fault[s] \in {"canvas", "audio"} =>
            /\ Failed(s)
            /\ promise[s].error =
                  (IF fault[s] = "canvas" THEN CanvasContextError
                                          ELSE AudioContextError)
            /\ video[s].src = "unset"
            /\ ~video[s].meta
            /\ recorder[s].state = "none"
            /\ ~video[s].playCalled
            /\ s \notin scheduled

C10_Witness ==
    \E s, u \in Sessions : fault[s] = "canvas" /\ fault[u] = "audio"

\* The ranges and types the Settings fields are documented with.
Documented(value) ==
    /\ \A key \in {"brightness", "contrast", "saturation"} :
          /\ value[key].type = "number"
          /\ value[key].num >= 0 /\ value[key].num <= Hundredths(200)
    /\ value.playbackSpeed.type = "number"
    /\ 2 * value.playbackSpeed.num >= Hundredths(1)
    /\ value.playbackSpeed.num <= Hundredths(2)
    /\ value.volume.type = "number"
    /\ value.volume.num >= 0 /\ value.volume.num <= Hundredths(100)
    /\ \A key \in {"flipHorizontal", "enableRotatingLines", "enablePixelNoise",
                     "audioPreservesPitch"} :
          value[key].type = "boolean" /\ value[key].bool \in BOOLEAN

\* The AI call answered with a text that holds a JSON value.
Parsed == response # CallFailed /\ Parses(StripFence(response))

\* C11: whatever JSON value the answer of the AI call parses to, the Settings
\* value that handleSuggestSettings leaves has brightness, contrast and
\* saturation in 0..200, playbackSpeed in 0.5..2.0, volume in 0..100, and
\* its four flags are booleans.
C11_SuggestedSettingsInRange ==
    (lastOp.op = "suggestion" /\ Parsed) => Documented(currentSettings)

\* An answer with brightness 500 and playbackSpeed -1 was ingested.
C11_Witness ==
    /\ lastOp.op = "suggestion"
    /\ response = Text("none", Object(
          [PlainSuggestion EXCEPT !.brightness = Number(Hundredths(500)),
                                  !.playbackSpeed = Number(-Hundredths(1))]))
    /\ currentSettings.brightness = Number(Hundredths(200))
    /\ 2 * currentSettings.playbackSpeed.num = Hundredths(1)

\* C12: ingestion decides every field on its own: a field that is present
\* with the basic type of its default is taken (a number clamped into its
\* range), any other field gets its default; and the "partially applied"
\* warning is raised exactly when some field is missing or of another type;
\* clamping alone raises none.
C12_FieldwiseIngestion ==
    (lastOp.op = "suggestion" /\ ~SuggestionThrows(response)) =>
        LET suggested == JSONparse(StripFence(response))
            Given(key) == /\ suggested.type = "object"
                          /\ key \in DOMAIN suggested.fields
                          /\ suggested.fields[key].type =
                                DEFAULT_VIDEO_SETTINGS[key].type
            Clamped(key, x) == IF x < ranges[key].min THEN ranges[key].min
                               ELSE IF x > ranges[key].max THEN ranges[key].max
                               ELSE x
        IN /\ \A key \in SettingsKeys :
                 currentSettings[key] =
                    IF ~Given(key) THEN DEFAULT_VIDEO_SETTINGS[key]
                    ELSE IF key \in DOMAIN ranges
                    THEN Number(Clamped(key, suggested.fields[key].num))
                    ELSE suggested.fields[key]
           /\ (geminiError = PartialWarning) <=>
                 (\E key \in SettingsKeys : ~Given(key))
           /\ geminiError \in {NoError, PartialWarning}

\* The answer {"brightness": 500, "contrast": "high", ...valid fields} was
\* ingested: brightness 200, contrast at its default, and the warning.
C12_Witness ==
    /\ lastOp.op = "suggestion"
    /\ response = Text("none", Object(
          [PlainSuggestion EXCEPT !.brightness = Number(Hundredths(500)),
                                  !.contrast = Str("high")]))
    /\ currentSettings =
          [PlainSuggestion EXCEPT !.brightness = Number(Hundredths(200)),
                                  !.contrast = Number(Hundredths(100))]
    /\ geminiError = PartialWarning

\* The AI call answered with a text that is not the JSON text of a value.
Unparsable == response # CallFailed /\ ~Parses(StripFence(response))

\* C13: an answer of the AI call that fails to parse as JSON fails that
\* request only: geminiError is set, isSuggestingSettings is false again,
\* currentSettings is what it was, and nothing of the hook changes: not
\* isProcessing, progress, processingError or processedVideoUrl, no ref and
\* no object of any session.
C13_ParseFailureContained ==
    [][(lastOp'.op = "suggestion" /\ Unparsable) =>
          /\ geminiError' # NoError
          /\ ~isSuggestingSettings'
          /\ currentSettings' = currentSettings
          /\ UNCHANGED hookVars]_vars

\* An answer that is no JSON came back while a session was recording.
C13_Witness ==
    /\ lastOp.op = "suggestion"
    /\ response = Text("none", Garbage)
    /\ geminiError = SuggestFailedError
    /\ ~isSuggestingSettings
    /\ \E s \in Sessions : recorder[s].state = "recording" /\ s \in scheduled

\* C14: every Settings value applied to the export (handed to a
\* processVideo call) or to the preview (handed to the preview player once a
\* file is selected) has its numbers inside the documented ranges and its
\* fields of the documented types, whichever producer it came from.
C14_AppliedSettingsDocumented ==
    /\ \A s \in Sessions : settings[s] # Unset => Documented(settings[s])
    /\ (mounted /\ videoFile # NoFile) => Documented(debouncedSettingsForPreview)

\* The defaults as documented
DocumentedDefaults ==
    [brightness |-> Number(Hundredths(100)),
     contrast |-> Number(Hundredths(100)),
     saturation |-> Number(Hundredths(100)),
     playbackSpeed |-> Number(Hundredths(1)),
     volume |-> Number(Hundredths(100)),
     flipHorizontal |-> Bool(FALSE),
     enableRotatingLines |-> Bool(FALSE),
     enablePixelNoise |-> Bool(FALSE),
     audioPreservesPitch |-> Bool(TRUE)]

\* The persisted entry is missing, or corrupt: it is empty, it is not the
\* JSON text of a value, or the value is no object.
MissingOrCorrupt ==
    \/ savedSettings = NoEntry
    \/ ~Parses(savedSettings)
    \/ JSONparse(savedSettings).type # "object"

C16_ResetYieldsDefaults ==
    lastOp.op = "handleReset" => currentSettings = DocumentedDefaults

\* Reset acted on a restored value with brightness 500 and three flags set.
C16_Witness ==
    /\ lastOp.op = "handleReset"
    /\ savedSettings = Text("none", Object(
          [PlainSuggestion EXCEPT !.brightness = Number(Hundredths(500))]))
    /\ currentSettings = DocumentedDefaults
    /\ debouncedSettingsForPreview.brightness = Number(Hundredths(500))

\* The canvas of the current session shows a frame drawn with the lines.
LinesDrawn ==
    /\ canvasRef # 0
    /\ canvas[canvasRef].painted.drawn
    /\ canvas[canvasRef].painted.lines

InTurn(angle) == 0 <= angle /\ angle < TwoPi

\* C17 as stated: after N frames drawn with the lines, the first angle is
\* ahead of the second by 2 * N * increment modulo 2 pi, and both angles lie
\* in [0, 2 pi).
C17_OffsetTwiceFrames ==
    LinesDrawn =>
        /\ (rotationAngle1Ref - rotationAngle2Ref
              - 2 * linesFrames * rotationIncrementPerFrame) % TwoPi = 0
        /\ InTurn(rotationAngle1Ref)
        /\ InTurn(rotationAngle2Ref)

\* C17, amended: the second angle starts a quarter turn ahead, so after N
\* frames drawn with the lines the first angle is ahead of the second by
\* 2 * N * increment - pi / 2 modulo 2 pi; both angles lie in [0, 2 pi) after
\* every frame.
C17_OffsetFromQuarterTurn ==
    /\ (rotationAngle1Ref - rotationAngle2Ref
          - (2 * linesFrames * rotationIncrementPerFrame - HalfPi)) % TwoPi = 0
    /\ InTurn(rotationAngle1Ref)
    /\ InTurn(rotationAngle2Ref)

\* The second angle has passed zero and come round: more frames were drawn
\* than a quarter turn holds.
C17_Witness ==
    /\ LinesDrawn
    /\ linesFrames * rotationIncrementPerFrame > HalfPi
    /\ rotationAngle2Ref > HalfPi

\* C18: a frame drawn with enablePixelNoise true carries exactly
\* floor(width * height * 0.001) noise marks for the width and height of its
\* canvas, 1000 of them on a canvas of 1000 by 1000; a frame drawn with
\* enablePixelNoise false carries none.
C18_NoiseMarksPerFrame ==
    \A s \in Sessions :
        canvas[s].painted.drawn =>
            LET marks == canvas[s].painted.noise
                area == canvas[s].width * canvas[s].height
            IN IF settings[s].enablePixelNoise = Bool(TRUE)
               THEN /\ 1000 * marks <= area
                    /\ area < 1000 * (marks + 1)
                    /\ (area = 1000 * 1000 => marks = 1000)
               ELSE marks = 0

\* A frame of 1920 by 1080 was drawn with the noise: 2073 marks.
C18_Witness ==
    \E s \in Sessions :
        /\ canvas[s].painted.drawn
        /\ settings[s].enablePixelNoise = Bool(TRUE)
        /\ canvas[s].width = 1920 /\ canvas[s].height = 1080
        /\ canvas[s].painted.noise = 2073

\* C19: what a session of the export applies is the Settings value that was
\* current when the export was requested: every frame it draws is flipped,
\* filtered, marked and lined as that value says, and the playback rate, the
\* pitch flag and the audio gain set for it are that value's; a debounced
\* preview value that lags behind, or a change made after the request, has
\* no part in it.
C19_ExportUsesRequestedSettings ==
    \A s \in Sessions :
        /\ canvas[s].painted.drawn =>
              /\ canvas[s].painted.flip = (requested[s].flipHorizontal = Bool(TRUE))
              /\ canvas[s].painted.filter =
                    <<requested[s].brightness, requested[s].contrast,
                      requested[s].saturation>>
              /\ canvas[s].painted.lines =
                    (requested[s].enableRotatingLines = Bool(TRUE))
              /\ (canvas[s].painted.noise > 0 =>
                    requested[s].enablePixelNoise = Bool(TRUE))
        /\ applied[s] # Unset =>
              /\ applied[s].playbackRate = requested[s].playbackSpeed
              /\ applied[s].preservesPitch = requested[s].audioPreservesPitch
              /\ (applied[s].gain # Unset =>
                    100 * applied[s].gain.num = requested[s].volume.num)

\* A session draws a frame while the preview value still lags behind the
\* value the export was requested with, and after the value was changed
\* again.
C19_Witness ==
    \E s \in Sessions :
        /\ lastOp = [op |-> "drawFrame", s |-> s]
        /\ canvas[s].painted.drawn
        /\ applied[s] # Unset /\ applied[s].gain # Unset
        /\ debouncedSettingsForPreview # requested[s]
        /\ currentSettings # requested[s]

\* C20: a result URL created at a recorder's stop is revoked once it is no
\* longer the URL the hook exposes, so the URLs created and not yet revoked
\* are at most one: the one exposed.
C20_SupersededUrlsRevoked ==
    /\ objectUrls \subseteq {processedVideoUrl}
    /\ Cardinality(objectUrls) <= 1

\* The result link is rendered.
DownloadShown == mounted /\ processedVideoUrl # 0 /\ ~isProcessing

\* A file name without its extension: what precedes its last dot, or all of
\* it when it has no dot.
Basename(name) ==
    LET dots == {i \in DOMAIN name : name[i] = "."} IN
    IF dots = {}
    THEN name
    ELSE SubSeq(name, 1, (CHOOSE i \in dots : \A j \in dots : j <= i) - 1)

\* C21: the download name of the result is "modified_", then the name of the
\* original file without its extension, then ".webm", whether the name has
\* no dot, one dot or several.
C21_DownloadNameKeepsBasename ==
    (DownloadShown /\ videoFile # NoFile) =>
        Download(videoFile) =
            <<"modified_">> \o Basename(videoFile.name) \o <<".webm">>

\* C22: the chunk buffer never holds a chunk of size zero, and the blob a
\* session's stop handler builds (of the chunks the buffer holds when it
\* runs) is the sequence of the non-empty chunks its recorder delivered, in
\* the order of their arrival.
C22_BlobIsChunksInOrder ==
    [][/\ \A i \in DOMAIN recordedChunksRef' : recordedChunksRef'[i].size > 0
       /\ \A s \in Sessions :
             lastOp' = [op |-> "onstop", s |-> s] =>
                 recordedChunksRef = delivered[s]]_vars

\* The source is absent, paused or ended.
SourceGone ==
    \/ sourceVideoRef = 0
    \/ video[sourceVideoRef].paused
    \/ video[sourceVideoRef].ended

C24_AudioProblemsDoNotFail ==
    [][\A s \in Sessions :
          lastOp' = [op |-> "onloadedmetadata", s |-> s] =>
              /\ "video" \in applied'[s].tracks
              /\ "audio" \in applied'[s].tracks <=>
                    (file[s].signals # {} /\ ~file[s].graphThrows)
              /\ "audio" \in applied'[s].tracks =>
                    100 * applied'[s].gain.num = settings[s].volume.num
              /\ fault'[s] \notin {"mime", "ctor"} =>
                    /\ processingError' = processingError
                    /\ promise'[s].state = promise[s].state
                    /\ recorder'[s].state = "recording"
                    /\ isProcessing' = isProcessing]_vars

\* A session went on to record video only after the audio graph threw for a
\* file whose audio was reported by two signals.
C24_Witness ==
    \E s \in Sessions :
        /\ lastOp = [op |-> "onloadedmetadata", s |-> s]
        /\ file[s].signals = {"mozHasAudio", "webkitAudioDecodedByteCount"}
        /\ file[s].graphThrows
        /\ applied[s].tracks = {"video"}
        /\ recorder[s].state = "recording"
        /\ isProcessing /\ processingError = NoError /\ Pending(s)

\* The current session is open: its recorder is recording, isProcessing is
\* true and its promise is not settled.
Open(s) ==
    /\ s = Current
    /\ recorder[s].state = "recording"
    /\ isProcessing
    /\ Pending(s)

\* The source of session s is neither paused nor ended.
Running(s) == ~video[s].paused /\ ~video[s].ended

\* C25: there is no timeout. An open session whose source does not end, pause
\* or raise an error and whose recorder raises no error stays open through
\* every step other than a processVideo call or the unmount.
C25_OpenUntilTornDown ==
    [][\A s \in Sessions :
          (/\ Open(s) /\ Running(s)
           /\ ~video'[s].paused /\ ~video'[s].ended
           /\ lastOp'.op \notin {"processVideo", "unmount"}
           /\ lastOp' # [op |-> "onerror(playback)", s |-> s]
           /\ lastOp' # [op |-> "recorder.onerror", s |-> s])
              => /\ recorder'[s].state = "recording"
                 /\ isProcessing'
                 /\ promise'[s].state = "pending"]_vars

\* ------------------------------------------- the recorder's error events
\* The values the error property of a recorder error event is drawn from: no
\* error, Error objects with and without a message, plain objects with a
\* string name (with a message, with an empty one, with none), objects
\* without a string name, and a primitive.
RecorderEventErrors ==
    {Undefined, Null, Str("failure"),
     ErrorObject("InvalidStateError", <<"recorder is inactive">>),
     ErrorObject("SecurityError", <<>>),
     Object([name |-> Str("NotSupportedError"), message |-> Str("codec lost")]),
     Object([name |-> Str("UnknownError"), message |-> Str("")]),
     Object([name |-> Str("EncodingError")]),
     Object([name |-> Number(7), message |-> Str("numbered")]),
     Object([message |-> Str("nameless")])}

NextRecorder ==
    \/ HandleFileSelect({AnyFile})
    \/ HandleProcessVideo(FrameSessions)
    \/ Playback
    \/ \E s \in Sessions : OnRecorderErrorWith(s, RecorderEventErrors)

SpecRecorder == Init /\ [][NextRecorder]_vars

\* The event's error is an Error, or an object with a string name
Structured(e) == e.type = "Error" \/ HasStringName(e)

\* The name and, where there is one, the message carried by a structured
\* error
NameOf(e) == IF e.type = "Error" THEN e.name ELSE e.fields.name.str

MessageOf(e) ==
    IF e.type = "Error" THEN e.message
    ELSE IF "message" \in DOMAIN e.fields /\ e.fields.message.str # ""
    THEN <<e.fields.message.str>>
    ELSE <<>>

\* C26: after mediaRecorder.onerror, processingError holds the name and the
\* message (if any) of a structured event error, and the generic
\* 'MediaRecorder unspecified error' for any other event; the session's
\* promise is rejected with an Error object, and every handle of the hook has
\* been released by then.
C26_RecorderErrorNormalized ==
    \A s \in Sessions :
        lastOp = [op |-> "recorder.onerror", s |-> s]
            => /\ IF Structured(eventError)
                  THEN /\ NameOf(eventError) \in Range(processingError)
                       /\ Range(MessageOf(eventError))
                              \subseteq Range(processingError)
                  ELSE processingError = RecorderError
               /\ Failed(s)
               /\ promise[s].kind = "Error"
               /\ Idle(Cur)

C26_Witness ==
    /\ lastOp.op = "recorder.onerror"
    /\ eventError = Object([name |-> Str("EncodingError")])
    /\ processingError = <<"MediaRecorder error: ", "EncodingError">>
    /\ Failed(lastOp.s)

\* ------------------------------------------------ callbacks out of date
\* The operations that are callbacks of one session
Callbacks ==
    {"onloadedmetadata", "onplay", "play.catch", "onended", "drawFrame",
     "ondataavailable", "onstop", "recorder.onerror", "onerror(playback)",
     "onerror(load)"}

\* A session that a later processVideo call replaced, or that has failed
OutOfDate(s) == s \in superseded \/ Failed(s)

\* C27: a callback of a session that was superseded or has failed leaves the
\* handles of the current session alone: mediaRecorderRef keeps the current
\* session's recorder, animationFrameIdRef keeps its frame handle and the
\* frame it names stays scheduled.
C27_OutOfDateCallbacksKeepHandles ==
    [][\A s \in Sessions :
          (/\ OutOfDate(s) /\ s # Current
           /\ lastOp'.s = s /\ lastOp'.op \in Callbacks)
              => /\ mediaRecorderRef = Current
                      => mediaRecorderRef' = Current
                 /\ animationFrameIdRef = Current
                      => /\ animationFrameIdRef' = Current
                         /\ Current \in scheduled => Current \in scheduled']_vars

\* C28: a session has one outcome. processingError and processedVideoUrl are
\* never both set, and the URL published is never that of a session that has
\* failed.
C28_OneOutcome ==
    /\ ~(processingError # NoError /\ processedVideoUrl # 0)
    /\ \A s \in Sessions : Failed(s) => processedVideoUrl # s

\* C29: the Blob built at a recorder's stop holds chunks of that recorder
\* only: when the stop handler of a session has run, every chunk in the
\* buffer it read was delivered by that session's recorder.
C29_BlobOfOwnChunks ==
    \A s \in Sessions :
        lastOp = [op |-> "onstop", s |-> s]
            => \A i \in DOMAIN recordedChunksRef : recordedChunksRef[i].rec = s

\* ------------------------------------------------------- settled promises
\* What the browser is bound to do for a session: a load that was started
\* reports its metadata or its failure, play() is answered, a playing source
\* moves on, and every event or frame that is queued is handled.
Delivery(s) ==
    /\ WF_vars(OnLoadedMetadata(s) \/ OnLoadError(s))
    /\ WF_vars(OnPlay(s))
    /\ WF_vars(PlayResolved(s) \/ PlayRejected(s))
    /\ WF_vars(Advance(s))
    /\ WF_vars(OnEnded(s))
    /\ WF_vars(OnAnimationFrame(s))
    /\ WF_vars(OnDataAvailable(s))
    /\ WF_vars(OnStop(s))

SpecLive == Init /\ [][Next]_vars /\ \A s \in 1..MaxSessions : Delivery(s)

\* The session is over: a later processVideo call replaced it, its source
\* ended, it hit a failure, or the component was unmounted.
Over(s) ==
    /\ s <= nSessions
    /\ \/ s \in superseded
       \/ video[s].ended
       \/ fault[s] # "none"
       \/ ~mounted

\* C30: the promise of a session that is over is eventually settled,
\* resolved or rejected, whether the session was replaced before its
\* recorder existed or after.
C30_PromiseEventuallySettled ==
    \A s \in Sessions : Over(s) ~> ~Pending(s)

\* C31: isProcessing reflects the state of the session: whenever
\* isProcessing is false, no recorder is recording and no frame is scheduled.
C31_IdleMeansNothingRuns ==
    ~isProcessing => (Recording = {} /\ scheduled = {})

\* ------------------------------------------------- phases of the overlay
\* Calls of processVideo at any moment, each with the rotating lines on or
\* off, and the events of loading, playing and recording; a session draws
\* the lines in at most PhaseFrames frames.
NextPhases ==
    \/ \E lines \in BOOLEAN :
          ProcessVideoWith(MaxSessions, AnyFile,
              [DEFAULT_VIDEO_SETTINGS EXCEPT !.enableRotatingLines = Bool(lines)])
    \/ \E s \in Sessions : OnLoadedMetadata(s)
    \/ \E s \in Sessions : OnPlay(s)
    \/ \E s \in Sessions : PlayResolved(s)
    \/ \E s \in Sessions : PlayRejected(s)
    \/ \E s \in Sessions : Advance(s)
    \/ \E s \in Sessions : OnEnded(s)
    \/ \E s \in Sessions : linesFrames < PhaseFrames /\ OnAnimationFrame(s)
    \/ \E s \in Sessions : OnDataAvailable(s)
    \/ \E s \in Sessions : OnStop(s)

SpecPhases == Init /\ [][NextPhases]_vars

\* This step is a drawFrame invocation of session s that passes the guard
FrameDrawn(s) ==
    /\ lastOp' = [op |-> "drawFrame", s |-> s]
    /\ ~FrameGuard(Cur)

\* C32: every session starts its phases from the same values: the step that
\* draws the first frame of a session starts from the angles 0 and a quarter
\* turn; and the angles change only where processVideo resets them and in
\* drawn frames of a session with enableRotatingLines set.
C32_PhasesResetPerSession ==
    [][/\ \A s \in Sessions :
             (FrameDrawn(s) /\ ~canvas[s].painted.drawn)
                 => (rotationAngle1Ref = 0 /\ rotationAngle2Ref = HalfPi)
       /\ <<rotationAngle1Ref, rotationAngle2Ref>>'
               # <<rotationAngle1Ref, rotationAngle2Ref>>
             => \/ lastOp'.op = "processVideo"
                \/ \E s \in Sessions :
                      /\ FrameDrawn(s)
                      /\ Truthy(settings[s].enableRotatingLines)]_vars

\* The second session draws its first frame after the first session moved
\* the phases.
C32_Witness ==
    /\ lastOp = [op |-> "drawFrame", s |-> 2]
    /\ canvas[1].painted.drawn /\ canvas[1].painted.lines
    /\ canvas[2].painted.drawn /\ canvas[2].painted.lines
    /\ rotationAngle1Ref = rotationIncrementPerFrame

====
